---- MODULE Spec2Model ----
(***************************************************************************)
(* Model of the TCP command client of pyCatapulta (src/main.py):           *)
(* OpenMSXClientWindow with its port-discovery thread, its send threads    *)
(* (send_command_thread), the Tk main thread (on_send, on_close) and the   *)
(* openMSX peer at the other end of the socket; the port discovery         *)
(* find_port_from_temp over the rendezvous directory; and the port watcher *)
(* of OpenMSXFrontend (_start_port_watcher).                               *)
(***************************************************************************)
EXTENDS Integers, Sequences, FiniteSets, TLC

(***************************************************************************)
(* Bounds of the model.                                                    *)
(***************************************************************************)
\* number of send threads that may be alive at the same time
NumTasks == 2
\* number of sockets the peer accepts over a run (further connects fail)
MaxSockets == 2
\* longest command text fed to the normalisation of send_command_thread
MaxCmdLen == 5
\* number of names the rendezvous directory may hold
MaxFiles == 3
\* longest generated file content fed to the parsing of find_port_from_temp
MaxContentLen == 3

(***************************************************************************)
(* Program constants.                                                      *)
(***************************************************************************)
\* Python's None (self.sock = None, self.tcp_port = None)
None == -1
\* stands for a call of find_port_from_temp that ends in an exception
Raised == -2
\* max_total = 3.0 seconds of _recv_all_until_quiet, in clock ticks of 1 s
MaxTotal == 3
\* for _ in range(12) of _background_find_port
DiscoveryAttempts == 12
\* idle_timeout = 0.25 seconds of _recv_all_until_quiet: within one clock tick
IdleTimeout == 1

Tasks == 1..NumTasks
SockIds == 1..MaxSockets
\* ports a rendezvous file may advertise; 0 is an integer Python treats as false
Ports == {0, 9938}
\* how a call of find_port_from_temp may end (FindSpec follows one call)
FindOutcomes == Ports \cup {None, Raised}
Chars == {"a", " ", "\n"}
WhiteSpace == {" ", "\n"}

VARIABLES
    tcp_port,   \* self.tcp_port
    stop,       \* self._stop
    sock,       \* self.sock: None or the id of a socket
    sock_lock,  \* self.sock_lock: None (free) or the thread holding it
    sockets,    \* every socket object: open, mode, peer state, unread data
    nsock,      \* number of sockets created so far
    disc_pc,    \* position of _background_find_port
    disc_i,     \* its loop counter
    main_pc,    \* position of the Tk main thread
    pc,         \* position of each send thread
    s,          \* local s of send_command_thread
    cmd,        \* argument cmd of send_command_thread
    data,       \* local data: the text handed to sendall
    remaining,  \* end_time - time.time() of the thread's drain
    parts,      \* "".join(parts): "" or non-empty
    report,     \* what the thread handed to append_response
    stat,       \* the last failure or completion text the thread handed to
                \* set_status ("Connected." is recorded in ecLast)
    ioErr,      \* history: a sendall or recv of this thread raised
    ecLast,     \* history: the last _ensure_connected call since a close
    closeAgain, \* history: the running on_close is not the first one
    closeRaised,\* history: sock.close() of the running on_close raised
    norm_in,    \* command text given to the normalisation (NormSpec)
    norm_out,   \* text the normalisation produced for it (NormSpec)
    dir_exists, \* the rendezvous directory <tmp>/openmsx-default exists
    entries,    \* what is inside it: kind, mtime and content of each name
    fp_pc,      \* position of one call of find_port_from_temp (FindSpec)
    fp_files,   \* its local files, in the order the listing gave
    fp_latest,  \* its local latest
    fp_result,  \* the value it returned
    parse_in,   \* file content given to the parsing of lines 1130-1143
    parse_out,  \* <<>> or the one value the parsing returned (ParseSpec)
    w_pc,       \* position of _start_port_watcher (WatchSpec)
    w_port,     \* its local port
    w_hit,      \* the result of the tick it has just finished
    msg_box     \* the last line it appended to the message box

clientVars == <<tcp_port, stop, sock, sock_lock, sockets, nsock>>
discVars == <<disc_pc, disc_i>>
taskVars == <<pc, s, cmd, data, remaining, parts, report, stat, ioErr>>
histVars == <<ecLast, closeAgain, closeRaised>>
normVars == <<norm_in, norm_out>>
findVars == <<dir_exists, entries, fp_pc, fp_files, fp_latest, fp_result>>
parseVars == <<parse_in, parse_out>>
watchVars == <<w_pc, w_port, w_hit, msg_box>>
frontVars == <<findVars, parseVars, watchVars>>
vars == <<clientVars, discVars, main_pc, taskVars, histVars, normVars,
          frontVars>>

(***************************************************************************)
(* Text helpers: str.strip() and the normalisation of lines 224-226.       *)
(***************************************************************************)
RECURSIVE LStrip(_)
LStrip(txt) ==
    IF txt # <<>> /\ Head(txt) \in WhiteSpace THEN LStrip(Tail(txt)) ELSE txt

RECURSIVE RStrip(_)
RStrip(txt) ==
    IF txt # <<>> /\ txt[Len(txt)] \in WhiteSpace
    THEN RStrip(SubSeq(txt, 1, Len(txt) - 1))
    ELSE txt

Strip(txt) == RStrip(LStrip(txt))

EndsWithNewline(txt) == txt # <<>> /\ txt[Len(txt)] = "\n"

Normalize_NoStrip(c) ==
    IF EndsWithNewline(c) THEN c ELSE c \o <<"\n">>

Normalize(c) ==
    LET stripped == Strip(c)
    IN  IF EndsWithNewline(stripped) THEN stripped ELSE stripped \o <<"\n">>

RECURSIVE TextsOfLen(_)
TextsOfLen(n) ==
    IF n = 0 THEN {<<>>}
    ELSE {t \o <<c>> : t \in TextsOfLen(n - 1), c \in Chars}

Texts == UNION {TextsOfLen(n) : n \in 0..MaxCmdLen}

\* what the user may have typed into the input box
RawTexts == {<<>>, <<"a">>, <<"a", "\n">>, <<" ", "a">>}

(***************************************************************************)
(* Sockets.                                                                *)
(***************************************************************************)
ClosedSocket == [open |-> FALSE, mode |-> "closed", peer |-> "gone", pending |-> "none"]
\* socket.create_connection(..., timeout=1.0)
NewSocket == [open |-> TRUE, mode |-> "timeout", peer |-> "up", pending |-> "none"]

\* socket.close(): the descriptor is released whether or not close raises
CloseSocket(id) == [sockets EXCEPT ![id] = ClosedSocket]

\* chunk.decode("utf-8", errors="ignore")
Decode(chunk) == IF chunk = "text" THEN "x" ELSE ""

\* parts.append(...) followed by "".join(parts), up to emptiness
AppendPart(joined, txt) == IF txt = "" THEN joined ELSE "x"

(***************************************************************************)
(* find_port_from_temp, lines 1120-1147: the rendezvous directory and the  *)
(* operations on the text of a rendezvous file.                            *)
(***************************************************************************)
Names == 1..MaxFiles
Mtimes == 1..MaxFiles

\* contents of the rendezvous files of FindSpec: ports 1 and 21, and no port
FileContents == {<<"1">>, <<"2", "1">>, <<"a">>}

\* a name that is not in the directory
NoEntry == [kind |-> "absent", mtime |-> 0, readable |-> FALSE, content |-> <<>>]
\* a subdirectory: glob lists it, os.path.isfile rejects it
DirEntry == [kind |-> "dir", mtime |-> 0, readable |-> FALSE, content |-> <<>>]
\* a regular file; open() fails on one the process may not read
FileEntries ==
    [kind : {"file"}, mtime : Mtimes, readable : {TRUE}, content : FileContents]
    \cup [kind : {"file"}, mtime : Mtimes, readable : {FALSE}, content : {<<>>}]
EntryStates == {NoEntry, DirEntry} \cup FileEntries

\* the orders in which glob.glob may list the names of a set
Listings(S) ==
    {l \in [1..Cardinality(S) -> S] : \A i, j \in 1..Cardinality(S) :
                                         l[i] = l[j] => i = j}

\* a variant of line 1128: latest = files[0]
PyMax_First(files) == files[1]

\* max(files, key=os.path.getmtime): the first item whose key no later item
\* exceeds
RECURSIVE PyMaxFrom(_, _, _)
PyMaxFrom(files, best, i) ==
    IF i > Len(files) THEN best
    ELSE PyMaxFrom(files,
                   IF entries[files[i]].mtime > entries[best].mtime
                   THEN files[i] ELSE best,
                   i + 1)

PyMax(files) == PyMaxFrom(files, files[1], 2)

DigitChars == <<"0", "1", "2", "3", "4", "5", "6", "7", "8", "9">>
IsDigit(c) == \E i \in 1..Len(DigitChars) : DigitChars[i] = c
DigitValue(c) == (CHOOSE i \in 1..Len(DigitChars) : DigitChars[i] = c) - 1

\* content.split()[0] of a stripped text: the characters before the first
\* blank; <<>> stands for the IndexError of an empty text, which the same
\* except clause catches as the ValueError of int()
RECURSIVE FirstToken(_)
FirstToken(txt) ==
    IF txt = <<>> \/ Head(txt) \in WhiteSpace THEN <<>>
    ELSE <<Head(txt)>> \o FirstToken(Tail(txt))

\* int(tok) succeeds: over the characters of the model, on decimal digits only
IsDecimal(tok) == tok # <<>> /\ \A i \in 1..Len(tok) : IsDigit(tok[i])

RECURSIVE DecimalValue(_)
DecimalValue(tok) ==
    IF tok = <<>> THEN 0
    ELSE DecimalValue(SubSeq(tok, 1, Len(tok) - 1)) * 10
         + DigitValue(tok[Len(tok)])

RECURSIVE LeadingDigits(_)
LeadingDigits(txt) ==
    IF txt = <<>> \/ ~IsDigit(Head(txt)) THEN <<>>
    ELSE <<Head(txt)>> \o LeadingDigits(Tail(txt))

RECURSIVE UpToQuote(_)
UpToQuote(txt) ==
    IF txt = <<>> \/ Head(txt) = "\"" THEN <<>>
    ELSE <<Head(txt)>> \o UpToQuote(Tail(txt))

Drop(txt, n) == SubSeq(txt, n + 1, Len(txt))

\* json.loads(content) followed by isinstance(data, dict): over the contents of
\* the model a dict comes only out of  { "key" : digits }  with optional
\* blanks between the tokens; every other content raises or is no dict
JsonObject(content) ==
    LET fail == [ok |-> FALSE, key |-> <<>>, val |-> 0]
        a == LStrip(content)
        b == LStrip(Drop(a, 1))
        key == UpToQuote(Drop(b, 1))
        c == Drop(b, 1 + Len(key))
        d == LStrip(Drop(c, 1))
        e == LStrip(Drop(d, 1))
        num == LeadingDigits(e)
        f == LStrip(Drop(e, Len(num)))
    IN  IF /\ a # <<>> /\ Head(a) = "{"
           /\ b # <<>> /\ Head(b) = "\""
           /\ c # <<>> /\ Head(c) = "\""
           /\ d # <<>> /\ Head(d) = ":"
           /\ num # <<>> /\ (Len(num) = 1 \/ Head(num) # "0")
           /\ f = <<"}">>
        THEN [ok |-> TRUE, key |-> key, val |-> DecimalValue(num)]
        ELSE fail

\* content = fh.read().strip(); try: return int(content.split()[0]);
\* except: try: data = json.loads(content); if isinstance(data, dict) and
\* "port" in data: return int(data["port"]); except: pass / return None
ParsePort(raw) ==
    LET content == Strip(raw)
        tok == FirstToken(content)
        j == JsonObject(content)
    IN  IF IsDecimal(tok) THEN DecimalValue(tok)
        ELSE IF j.ok /\ j.key = <<"p", "o", "r", "t">> THEN j.val
        ELSE None

\* the file contents the rendezvous file is known to have had
Content_Plain == <<"1", "2", "3", "4", "5">>
Content_TrailingText == <<"1", "2", "3", "4", "5", "\n", "f", "o", "o">>
Content_Embedded == <<"p", "o", "r", "t", "=", "1", "2", "3", "4", "5">>
Content_Json ==
    <<"{", "\"", "p", "o", "r", "t", "\"", ":", " ", "1", "2", "3", "4", "5", "}">>
Content_Abc == <<"a", "b", "c">>
NamedContents ==
    {Content_Plain, Content_TrailingText, Content_Embedded, Content_Json,
     Content_Abc}

ContentChars == {"1", "2", "a", "=", " "}

RECURSIVE ContentsOfLen(_)
ContentsOfLen(n) ==
    IF n = 0 THEN {<<>>}
    ELSE {t \o <<c>> : t \in ContentsOfLen(n - 1), c \in ContentChars}

ParseContents ==
    NamedContents \cup UNION {ContentsOfLen(n) : n \in 0..MaxContentLen}

(***************************************************************************)
(* Initial state: OpenMSXClientWindow.__init__, lines 136-141.             *)
(***************************************************************************)
InitClient ==
    /\ tcp_port = None
    /\ stop = FALSE
    /\ sock = None
    /\ sock_lock = None
    /\ sockets = [id \in SockIds |-> ClosedSocket]
    /\ nsock = 0
    /\ disc_pc = "loop"
    /\ disc_i = 0
    /\ main_pc = "ui"
    /\ pc = [t \in Tasks |-> "done"]
    /\ s = [t \in Tasks |-> None]
    /\ cmd = [t \in Tasks |-> <<>>]
    /\ data = [t \in Tasks |-> <<>>]
    /\ remaining = [t \in Tasks |-> 0]
    /\ parts = [t \in Tasks |-> ""]
    /\ report = [t \in Tasks |-> "none"]
    /\ stat = [t \in Tasks |-> "none"]
    /\ ioErr = [t \in Tasks |-> FALSE]
    /\ ecLast = "none"
    /\ closeAgain = FALSE
    /\ closeRaised = FALSE

\* no call of find_port_from_temp is being followed
InitFind ==
    /\ dir_exists = FALSE
    /\ entries = [n \in Names |-> NoEntry]
    /\ fp_pc = "idle"
    /\ fp_files = <<>>
    /\ fp_latest = None
    /\ fp_result = None

InitParse ==
    /\ parse_in = <<>>
    /\ parse_out = <<>>

\* the watcher thread has been started (line 349) and is about to tick
InitWatch ==
    /\ w_pc = "find"
    /\ w_port = None
    /\ w_hit = FALSE
    /\ msg_box = "none"

InitFront == InitFind /\ InitParse /\ InitWatch

Init ==
    /\ InitClient
    /\ norm_in = <<>>
    /\ norm_out = <<>>
    /\ InitFront

(***************************************************************************)
(* _background_find_port, lines 163-174.                                   *)
(***************************************************************************)
\* for _ in range(12): if self._stop: return
DiscLoop ==
    /\ disc_pc = "loop"
    /\ disc_pc' = IF disc_i >= DiscoveryAttempts \/ stop THEN "done" ELSE "find"
    /\ UNCHANGED <<clientVars, disc_i, main_pc, taskVars, histVars, normVars, frontVars>>

\* a variant of lines 169-172 without the return
DiscFind_NoReturn ==
    /\ disc_pc = "find"
    /\ \E port \in FindOutcomes :
          IF port = Raised
          THEN /\ disc_pc' = "crashed"
               /\ UNCHANGED tcp_port
          ELSE IF port # None /\ port # 0
          THEN /\ tcp_port' = port
               /\ disc_pc' = "sleep"
          ELSE /\ disc_pc' = "sleep"
               /\ UNCHANGED tcp_port
    /\ UNCHANGED <<stop, sock, sock_lock, sockets, nsock, disc_i,
                   main_pc, taskVars, histVars, normVars, frontVars>>

\* port = find_port_from_temp(); if port: self.tcp_port = port; return.
\* The call is inside no try: an exception it raises ends the thread.
DiscFind ==
    /\ disc_pc = "find"
    /\ \E port \in FindOutcomes :
          IF port = Raised
          THEN /\ disc_pc' = "crashed"
               /\ UNCHANGED tcp_port
          ELSE IF port # None /\ port # 0
          THEN /\ tcp_port' = port
               /\ disc_pc' = "done"
          ELSE /\ disc_pc' = "sleep"
               /\ UNCHANGED tcp_port
    /\ UNCHANGED <<stop, sock, sock_lock, sockets, nsock, disc_i,
                   main_pc, taskVars, histVars, normVars, frontVars>>

\* time.sleep(1.0), then the next iteration
DiscSleep ==
    /\ disc_pc = "sleep"
    /\ disc_pc' = "loop"
    /\ disc_i' = disc_i + 1
    /\ UNCHANGED <<clientVars, main_pc, taskVars, histVars, normVars, frontVars>>

(***************************************************************************)
(* The Tk main thread: on_send (241-247) and on_close (249-261).           *)
(***************************************************************************)
\* text = ...strip(); if not text: return;
\* threading.Thread(target=self.send_command_thread, args=(text,)).start()
OnSend ==
    /\ main_pc = "ui"
    /\ \E raw \in RawTexts :
          LET text == Strip(raw)
          IN  IF text = <<>>
              THEN UNCHANGED taskVars
              ELSE \E t \in Tasks :
                     \* the new thread takes the first free slot
                     /\ pc[t] = "done"
                     /\ \A u \in Tasks : u < t => pc[u] # "done"
                     /\ pc' = [pc EXCEPT ![t] = "ensure"]
                     /\ cmd' = [cmd EXCEPT ![t] = text]
                     /\ report' = [report EXCEPT ![t] = "none"]
                     /\ stat' = [stat EXCEPT ![t] = "none"]
                     /\ UNCHANGED <<s, data, remaining, parts, ioErr>>
    /\ UNCHANGED <<clientVars, discVars, main_pc, histVars, normVars, frontVars>>

\* self._stop = True, then wait for sock_lock
OnClose ==
    /\ main_pc = "ui"
    /\ stop' = TRUE
    /\ closeAgain' = stop
    /\ main_pc' = "close_lock"
    /\ UNCHANGED <<tcp_port, sock, sock_lock, sockets, nsock,
                   discVars, taskVars, ecLast, closeRaised, normVars, frontVars>>

\* a variant of lines 251-257 with self.sock = None inside the try
OnCloseBody_NoneInTry ==
    /\ main_pc = "close_lock"
    /\ sock_lock = None
    /\ \E raised \in BOOLEAN :
          /\ raised => sock # None /\ sockets[sock].open
          /\ sockets' = IF sock # None THEN CloseSocket(sock) ELSE sockets
          /\ sock' = IF raised THEN sock ELSE None
          /\ closeRaised' = raised
    /\ main_pc' = "close_destroy"
    /\ ecLast' = "none"
    /\ UNCHANGED <<tcp_port, stop, sock_lock, nsock, discVars, taskVars,
                   closeAgain, normVars, frontVars>>

\* with self.sock_lock: try: if self.sock: self.sock.close() / except: pass /
\* self.sock = None.  Nothing in the block waits, so it is one step.
OnCloseBody ==
    /\ main_pc = "close_lock"
    /\ sock_lock = None
    /\ \E raised \in BOOLEAN :
          /\ raised => sock # None /\ sockets[sock].open
          /\ sockets' = IF sock # None THEN CloseSocket(sock) ELSE sockets
          /\ closeRaised' = raised
    /\ sock' = None
    /\ main_pc' = "close_destroy"
    /\ ecLast' = "none"
    /\ UNCHANGED <<tcp_port, stop, sock_lock, nsock, discVars, taskVars,
                   closeAgain, normVars, frontVars>>

\* try: self.win.destroy() / except: pass.  A destroy that fails leaves the
\* window, and with it the Send and Close buttons, in place.
OnCloseDestroy ==
    /\ main_pc = "close_destroy"
    /\ main_pc' \in {"destroyed", "ui"}
    /\ closeAgain' = FALSE
    /\ closeRaised' = FALSE
    /\ UNCHANGED <<clientVars, discVars, taskVars, ecLast, normVars, frontVars>>

(***************************************************************************)
(* _ensure_connected, lines 176-190, called from send_command_thread.      *)
(***************************************************************************)
\* the send thread returns: its locals are gone
Return(t) ==
    /\ pc' = [pc EXCEPT ![t] = "done"]
    /\ s' = [s EXCEPT ![t] = None]
    /\ cmd' = [cmd EXCEPT ![t] = <<>>]
    /\ data' = [data EXCEPT ![t] = <<>>]
    /\ remaining' = [remaining EXCEPT ![t] = 0]
    /\ parts' = [parts EXCEPT ![t] = ""]
    /\ ioErr' = [ioErr EXCEPT ![t] = FALSE]

Goto(t, label) ==
    /\ pc' = [pc EXCEPT ![t] = label]
    /\ UNCHANGED <<s, cmd, data, remaining, parts, ioErr>>

\* one more _ensure_connected call has returned
Called(kind) ==
    /\ ecLast' = kind
    /\ UNCHANGED <<closeAgain, closeRaised>>

\* a variant of lines 177-180 that skips the port test
EnsurePortCheck_NoCheck(t) ==
    /\ pc[t] = "ensure"
    /\ Goto(t, "ec_lock")
    /\ UNCHANGED <<clientVars, discVars, main_pc, report, stat,
                   histVars, normVars, frontVars>>

\* a variant of lines 177-180 that takes sock_lock before the port test
EnsurePortCheck_LockFirst(t) ==
    /\ pc[t] = "ensure"
    /\ sock_lock = None
    /\ sock_lock' = t
    /\ Goto(t, "connecting")
    /\ UNCHANGED <<tcp_port, stop, sock, sockets, nsock, discVars, main_pc,
                   report, stat, histVars, normVars, frontVars>>

\* if self.tcp_port is None: self.set_status("Port unknown."); return False
EnsurePortCheck(t) ==
    /\ pc[t] = "ensure"
    /\ IF tcp_port = None
       THEN /\ stat' = [stat EXCEPT ![t] = "Port unknown."]
            /\ Return(t)
            /\ Called("port_unknown")
       ELSE /\ Goto(t, "ec_lock")
            /\ UNCHANGED <<stat, histVars>>
    /\ UNCHANGED <<clientVars, discVars, main_pc, report, normVars, frontVars>>

\* a variant of lines 180-182 without "if self.sock: return True"
EnsureLock_NoReuse(t) ==
    /\ pc[t] = "ec_lock"
    /\ sock_lock = None
    /\ sock_lock' = t
    /\ Goto(t, "connecting")
    /\ UNCHANGED <<tcp_port, stop, sock, sockets, nsock, discVars, main_pc,
                   report, stat, histVars, normVars, frontVars>>

\* with self.sock_lock: if self.sock: return True; otherwise the thread keeps
\* the lock while create_connection runs
EnsureLock(t) ==
    /\ pc[t] = "ec_lock"
    /\ sock_lock = None
    /\ IF sock # None
       THEN /\ Goto(t, "cap_lock")
            /\ Called("reused")
            /\ UNCHANGED sock_lock
       ELSE /\ sock_lock' = t
            /\ Goto(t, "connecting")
            /\ UNCHANGED histVars
    /\ UNCHANGED <<tcp_port, stop, sock, sockets, nsock, discVars, main_pc,
                   report, stat, normVars, frontVars>>

\* try: s = socket.create_connection(("127.0.0.1", self.tcp_port), timeout=1.0);
\* self.sock = s; return True / except: set_status("Connect failed"); return False
Connect(t) ==
    /\ pc[t] = "connecting"
    /\ sock_lock' = None
    /\ \/ /\ nsock < MaxSockets
          /\ nsock' = nsock + 1
          /\ sockets' = [sockets EXCEPT ![nsock + 1] = NewSocket]
          /\ sock' = nsock + 1
          /\ Goto(t, "cap_lock")
          /\ Called("connected")
          /\ UNCHANGED stat
       \/ /\ stat' = [stat EXCEPT ![t] = "Connect failed"]
          /\ Return(t)
          /\ Called("failed")
          /\ UNCHANGED <<sock, sockets, nsock>>
    /\ UNCHANGED <<tcp_port, stop, discVars, main_pc, report, normVars, frontVars>>

(***************************************************************************)
(* send_command_thread, lines 216-239.                                     *)
(***************************************************************************)
\* with self.sock_lock: s = self.sock / if not s: return
Capture(t) ==
    /\ pc[t] = "cap_lock"
    /\ sock_lock = None
    /\ IF sock = None
       THEN Return(t)
       ELSE /\ pc' = [pc EXCEPT ![t] = "send"]
            /\ s' = [s EXCEPT ![t] = sock]
            /\ UNCHANGED <<cmd, data, remaining, parts, ioErr>>
    /\ UNCHANGED <<clientVars, discVars, main_pc, report, stat,
                   histVars, normVars, frontVars>>

\* except Exception as e: self.append_response(f"<error: {e}>")
Raise(t, msg) ==
    /\ report' = [report EXCEPT ![t] = msg]
    /\ pc' = [pc EXCEPT ![t] = "err_lock"]

\* data = cmd.strip(); if not data.endswith("\n"): data += "\n";
\* s.sendall(data.encode("utf-8"))
Send(t) ==
    /\ pc[t] = "send"
    /\ data' = [data EXCEPT ![t] = Normalize(cmd[t])]
    /\ IF ~sockets[s[t]].open
       THEN Raise(t, "<error: EBADF>") /\ ioErr' = [ioErr EXCEPT ![t] = TRUE]
       ELSE IF sockets[s[t]].peer = "reset"
            THEN Raise(t, "<error: ECONNRESET>") /\ ioErr' = [ioErr EXCEPT ![t] = TRUE]
            ELSE /\ pc' = [pc EXCEPT ![t] = "drain_start"]
                 /\ UNCHANGED <<report, ioErr>>
    /\ UNCHANGED <<clientVars, discVars, main_pc, s, cmd, remaining, parts,
                   stat, histVars, normVars, frontVars>>

(***************************************************************************)
(* _recv_all_until_quiet, lines 192-214.                                   *)
(***************************************************************************)
\* end_time = time.time() + max_total; parts = []; s.setblocking(False)
DrainStart(t) ==
    /\ pc[t] = "drain_start"
    /\ IF ~sockets[s[t]].open
       THEN /\ Raise(t, "<error: EBADF>")
            /\ UNCHANGED <<sockets, remaining, parts>>
       ELSE /\ sockets' = [sockets EXCEPT ![s[t]].mode = "nonblocking"]
            /\ remaining' = [remaining EXCEPT ![t] = MaxTotal]
            /\ parts' = [parts EXCEPT ![t] = ""]
            /\ pc' = [pc EXCEPT ![t] = "drain"]
            /\ UNCHANGED report
    /\ UNCHANGED <<tcp_port, stop, sock, sock_lock, nsock, discVars,
                   main_pc, s, cmd, data, stat, ioErr, histVars, normVars, frontVars>>

\* what s.recv(4096) delivers out of socket r once it has something to deliver:
\* a chunk (then end_time is pushed back), b"" at end of stream (then a sleep),
\* or an error (except Exception: break)
Deliver(t, r) ==
    IF r.pending # "none"
    THEN /\ parts' = [parts EXCEPT ![t] = AppendPart(parts[t], Decode(r.pending))]
         /\ remaining' = [remaining EXCEPT ![t] = MaxTotal]
         /\ sockets' = [sockets EXCEPT ![s[t]].pending = "none"]
         /\ pc' = [pc EXCEPT ![t] = "drain"]
         /\ UNCHANGED ioErr
    ELSE IF r.peer = "eof"
         THEN /\ pc' = [pc EXCEPT ![t] = "drain"]
              /\ UNCHANGED <<parts, remaining, sockets, ioErr>>
         ELSE /\ pc' = [pc EXCEPT ![t] = "drain_fin"]
              /\ ioErr' = [ioErr EXCEPT ![t] = TRUE]
              /\ UNCHANGED <<parts, remaining, sockets>>

\* while time.time() < end_time: chunk = s.recv(4096) ... with the three
\* except clauses and the sleeps of one iteration
DrainIter(t) ==
    /\ pc[t] = "drain"
    /\ LET r == sockets[s[t]]
       IN  IF remaining[t] = 0
           THEN \* the deadline has passed: leave the loop
                /\ pc' = [pc EXCEPT ![t] = "drain_fin"]
                /\ UNCHANGED <<parts, remaining, sockets, ioErr>>
           ELSE IF ~r.open
           THEN \* OSError on a closed socket: except Exception: break
                /\ pc' = [pc EXCEPT ![t] = "drain_fin"]
                /\ ioErr' = [ioErr EXCEPT ![t] = TRUE]
                /\ UNCHANGED <<parts, remaining, sockets>>
           ELSE IF r.pending = "none" /\ r.peer = "up"
           THEN \* nothing to read: BlockingIOError and a sleep, unless
                \* another thread has made the socket blocking
                /\ pc' = [pc EXCEPT ![t] =
                            IF r.mode = "nonblocking" THEN "drain"
                            ELSE "recv_blocked"]
                /\ UNCHANGED <<parts, remaining, sockets, ioErr>>
           ELSE Deliver(t, r)
    /\ UNCHANGED <<tcp_port, stop, sock, sock_lock, nsock, discVars,
                   main_pc, s, cmd, data, report, stat, histVars, normVars, frontVars>>

\* a recv without timeout returns only when the peer sends, closes or resets
RecvWake(t) ==
    /\ pc[t] = "recv_blocked"
    /\ LET r == sockets[s[t]]
       IN  /\ r.open
           /\ r.pending # "none" \/ r.peer # "up"
           /\ Deliver(t, r)
    /\ UNCHANGED <<tcp_port, stop, sock, sock_lock, nsock, discVars,
                   main_pc, s, cmd, data, report, stat, histVars, normVars, frontVars>>

\* finally: s.setblocking(True) (errors passed over); return "".join(parts);
\* self.append_response(resp or "<no response>"); set_status("Command sent.")
DrainFin(t) ==
    /\ pc[t] = "drain_fin"
    /\ sockets' = IF sockets[s[t]].open
                  THEN [sockets EXCEPT ![s[t]].mode = "blocking"]
                  ELSE sockets
    /\ report' = [report EXCEPT ![t] =
                    IF parts[t] = "" THEN "<no response>" ELSE "response"]
    /\ stat' = [stat EXCEPT ![t] = "Command sent."]
    /\ Return(t)
    /\ UNCHANGED <<tcp_port, stop, sock, sock_lock, nsock, discVars, main_pc,
                   histVars, normVars, frontVars>>

(***************************************************************************)
(* The except clause of send_command_thread, lines 231-239.                *)
(***************************************************************************)
\* a variant of lines 234-237 that drops the handle without closing it
ErrDiscard_NoClose(t) ==
    /\ pc[t] = "err_lock"
    /\ sock_lock = None
    /\ sock' = None
    /\ Return(t)
    /\ UNCHANGED <<tcp_port, stop, sock_lock, sockets, nsock, discVars,
                   main_pc, report, stat, histVars, normVars, frontVars>>

\* with self.sock_lock: if self.sock: self.sock.close(); self.sock = None,
\* inside try/except: pass.  A close() that raises skips the assignment.
ErrDiscard(t) ==
    /\ pc[t] = "err_lock"
    /\ sock_lock = None
    /\ IF sock = None
       THEN UNCHANGED <<sock, sockets, histVars>>
       ELSE /\ sockets' = CloseSocket(sock)
            /\ \E raised \in BOOLEAN :
                  /\ raised => sockets[sock].open
                  /\ sock' = IF raised THEN sock ELSE None
            /\ ecLast' = "none"
            /\ UNCHANGED <<closeAgain, closeRaised>>
    /\ Return(t)
    /\ UNCHANGED <<tcp_port, stop, sock_lock, nsock, discVars, main_pc,
                   report, stat, normVars, frontVars>>

(***************************************************************************)
(* The environment: the clock and the openMSX peer.                        *)
(***************************************************************************)
InDrain(t) == pc[t] \in {"drain", "recv_blocked"}

\* one second passes: every running drain is one second closer to end_time
Tick ==
    /\ \E t \in Tasks : InDrain(t) /\ remaining[t] > 0
    /\ remaining' = [t \in Tasks |->
                       IF InDrain(t) /\ remaining[t] > 0
                       THEN remaining[t] - 1 ELSE remaining[t]]
    /\ UNCHANGED <<clientVars, discVars, main_pc, pc, s, cmd, data, parts,
                   report, stat, ioErr, histVars, normVars, frontVars>>

\* the peer writes a chunk of text
PeerSend ==
    /\ \E id \in SockIds :
          /\ sockets[id].open
          /\ sockets[id].peer = "up"
          /\ sockets[id].pending = "none"
          /\ sockets' = [sockets EXCEPT ![id].pending = "text"]
    /\ UNCHANGED <<tcp_port, stop, sock, sock_lock, nsock, discVars,
                   main_pc, taskVars, histVars, normVars, frontVars>>

\* the peer closes its end: the client reads b"" once the data is consumed
PeerClose ==
    /\ \E id \in SockIds :
          /\ sockets[id].open
          /\ sockets[id].peer = "up"
          /\ sockets' = [sockets EXCEPT ![id].peer = "eof"]
    /\ UNCHANGED <<tcp_port, stop, sock, sock_lock, nsock, discVars,
                   main_pc, taskVars, histVars, normVars, frontVars>>

\* the connection is reset: unread data is lost, reads and writes raise
PeerReset ==
    /\ \E id \in SockIds :
          /\ sockets[id].open
          /\ sockets[id].peer \in {"up", "eof"}
          /\ sockets' = [sockets EXCEPT ![id].peer = "reset",
                                        ![id].pending = "none"]
    /\ UNCHANGED <<tcp_port, stop, sock, sock_lock, nsock, discVars,
                   main_pc, taskVars, histVars, normVars, frontVars>>

(***************************************************************************)
(* The specification of the client.                                        *)
(***************************************************************************)
TaskStep(t) ==
    \/ EnsurePortCheck(t)
    \/ EnsureLock(t)
    \/ Connect(t)
    \/ Capture(t)
    \/ Send(t)
    \/ DrainStart(t)
    \/ DrainIter(t)
    \/ RecvWake(t)
    \/ DrainFin(t)
    \/ ErrDiscard(t)

Discovery == DiscLoop \/ DiscFind \/ DiscSleep

MainStep == OnSend \/ OnClose \/ OnCloseBody \/ OnCloseDestroy

Next ==
    \/ Discovery
    \/ MainStep
    \/ \E t \in Tasks : TaskStep(t)
    \/ Tick
    \/ PeerSend
    \/ PeerClose
    \/ PeerReset

Spec == Init /\ [][Next]_vars

(***************************************************************************)
(* The same client, its window left open, facing a peer that never sends:  *)
(* the peer may still close or reset the connection.  Every thread that    *)
(* can run does run, and the clock advances.                               *)
(***************************************************************************)
SilentNext ==
    \/ Discovery
    \/ OnSend
    \/ \E t \in Tasks : TaskStep(t)
    \/ Tick
    \/ PeerClose
    \/ PeerReset

SilentFairSpec ==
    /\ Init
    /\ [][SilentNext]_vars
    /\ WF_vars(Tick)
    /\ \A t \in Tasks : WF_vars(TaskStep(t))

(***************************************************************************)
(* The normalisation of lines 224-226 on its own, over every text of at    *)
(* most MaxCmdLen characters.                                              *)
(***************************************************************************)
NormInit ==
    /\ InitClient
    /\ norm_in \in Texts
    /\ norm_out = <<>>
    /\ InitFront

\* data = cmd.strip(); if not data.endswith("\n"): data += "\n"
NormSend ==
    /\ norm_out = <<>>
    /\ norm_out' = Normalize(norm_in)
    /\ UNCHANGED <<clientVars, discVars, main_pc, taskVars, histVars, norm_in,
                   frontVars>>

NormSpec == NormInit /\ [][NormSend]_vars

(***************************************************************************)
(* One call of find_port_from_temp, lines 1120-1147, over every content of *)
(* the rendezvous directory of at most MaxFiles names, while other         *)
(* processes remove files or the directory.                                *)
(***************************************************************************)
FindInit ==
    /\ InitClient
    /\ norm_in = <<>>
    /\ norm_out = <<>>
    /\ InitParse
    /\ InitWatch
    /\ dir_exists \in BOOLEAN
    /\ entries \in [Names -> EntryStates]
    /\ ~dir_exists => entries = [n \in Names |-> NoEntry]
    /\ fp_pc = "isdir"
    /\ fp_files = <<>>
    /\ fp_latest = None
    /\ fp_result = None

\* the call returns value
FpReturn(value) ==
    /\ fp_pc' = "returned"
    /\ fp_result' = value

\* if not os.path.isdir(base): return None
FpIsDir ==
    /\ fp_pc = "isdir"
    /\ IF dir_exists
       THEN fp_pc' = "glob" /\ UNCHANGED fp_result
       ELSE FpReturn(None)
    /\ UNCHANGED <<clientVars, discVars, main_pc, taskVars, histVars, normVars,
                   dir_exists, entries, fp_files, fp_latest, parseVars, watchVars>>

\* files = [f for f in glob.glob(os.path.join(base, "*")) if os.path.isfile(f)]
\* if not files: return None
FpGlob ==
    /\ fp_pc = "glob"
    /\ LET regular == {n \in Names : entries[n].kind = "file"}
       IN  IF regular = {}
           THEN FpReturn(None) /\ UNCHANGED fp_files
           ELSE /\ fp_files' \in Listings(regular)
                /\ fp_pc' = "max"
                /\ UNCHANGED fp_result
    /\ UNCHANGED <<clientVars, discVars, main_pc, taskVars, histVars, normVars,
                   dir_exists, entries, fp_latest, parseVars, watchVars>>

\* latest = max(files, key=os.path.getmtime), outside every try: getmtime
\* raises FileNotFoundError for a listed file that is gone
FpMax ==
    /\ fp_pc = "max"
    /\ IF \E i \in 1..Len(fp_files) : entries[fp_files[i]].kind = "absent"
       THEN fp_pc' = "raised" /\ UNCHANGED fp_latest
       ELSE fp_pc' = "open" /\ fp_latest' = PyMax(fp_files)
    /\ UNCHANGED <<clientVars, discVars, main_pc, taskVars, histVars, normVars,
                   dir_exists, entries, fp_files, fp_result, parseVars, watchVars>>

\* try: with open(latest, ...) as fh: content = fh.read().strip() ... parse
\* except Exception as e: _log(...); return None
FpOpen ==
    /\ fp_pc = "open"
    /\ LET e == entries[fp_latest]
       IN  IF e.kind = "absent" \/ ~e.readable
           THEN FpReturn(None)
           ELSE FpReturn(ParsePort(e.content))
    /\ UNCHANGED <<clientVars, discVars, main_pc, taskVars, histVars, normVars,
                   dir_exists, entries, fp_files, fp_latest, parseVars, watchVars>>

FpRunning == fp_pc \in {"glob", "max", "open"}

\* another process removes a rendezvous file during the call
FsRemove ==
    /\ FpRunning
    /\ \E n \in Names :
          /\ entries[n].kind = "file"
          /\ entries' = [entries EXCEPT ![n].kind = "absent"]
    /\ UNCHANGED <<clientVars, discVars, main_pc, taskVars, histVars, normVars,
                   dir_exists, fp_pc, fp_files, fp_latest, fp_result,
                   parseVars, watchVars>>

\* another process removes the directory with all it holds during the call
FsRemoveDir ==
    /\ FpRunning
    /\ dir_exists
    /\ dir_exists' = FALSE
    /\ entries' = [n \in Names |-> [entries[n] EXCEPT !.kind = "absent"]]
    /\ UNCHANGED <<clientVars, discVars, main_pc, taskVars, histVars, normVars,
                   fp_pc, fp_files, fp_latest, fp_result, parseVars, watchVars>>

FindNext ==
    \/ FpIsDir
    \/ FpGlob
    \/ FpMax
    \/ FpOpen
    \/ FsRemove
    \/ FsRemoveDir

FindSpec == FindInit /\ [][FindNext]_vars

(***************************************************************************)
(* The parsing of lines 1130-1143 on its own, over the named contents and  *)
(* every content of at most MaxContentLen characters.                      *)
(***************************************************************************)
ParseInit ==
    /\ InitClient
    /\ norm_in = <<>>
    /\ norm_out = <<>>
    /\ InitFind
    /\ InitWatch
    /\ parse_in \in ParseContents
    /\ parse_out = <<>>

ParseStep ==
    /\ parse_out = <<>>
    /\ parse_out' = <<ParsePort(parse_in)>>
    /\ UNCHANGED <<clientVars, discVars, main_pc, taskVars, histVars, normVars,
                   findVars, parse_in, watchVars>>

ParseSpec == ParseInit /\ [][ParseStep]_vars

(***************************************************************************)
(* OpenMSXFrontend._start_port_watcher, lines 1109-1117, with              *)
(* _check_local_port (1102-1107) and _append_message (509-522).            *)
(***************************************************************************)
\* the tick is over: time.sleep(interval) comes next
WatchTickDone(hit) ==
    /\ w_pc' = "sleep"
    /\ w_hit' = hit

\* try: port = find_port_from_temp(); if port and ...; an exception of the
\* call goes to except Exception: time.sleep(interval)
WatchFind ==
    /\ w_pc = "find"
    /\ \E port \in FindOutcomes :
          IF port \in {None, Raised, 0}
          THEN WatchTickDone(FALSE) /\ UNCHANGED w_port
          ELSE w_pc' = "probe" /\ w_port' = port /\ UNCHANGED w_hit
    /\ UNCHANGED <<clientVars, discVars, main_pc, taskVars, histVars, normVars,
                   findVars, parseVars, msg_box>>

\* a variant of _check_local_port that probes through the client's socket
\* under the client's lock
WatchProbe_ClientLock ==
    /\ w_pc = "probe"
    /\ sock_lock = None
    /\ WatchTickDone(sock # None)
    /\ msg_box' = IF sock # None THEN "port available" ELSE msg_box
    /\ UNCHANGED <<clientVars, discVars, main_pc, taskVars, histVars, normVars,
                   findVars, parseVars, w_port>>

\* self._check_local_port(port): a connection of its own, closed at once;
\* if it succeeded: self._append_message(f"openMSX TCP port available: {port}")
WatchProbe ==
    /\ w_pc = "probe"
    /\ \E connected \in BOOLEAN :
          /\ WatchTickDone(connected)
          /\ msg_box' = IF connected THEN "port available" ELSE msg_box
    /\ UNCHANGED <<clientVars, discVars, main_pc, taskVars, histVars, normVars,
                   findVars, parseVars, w_port>>

\* time.sleep(interval), then the next tick
WatchSleep ==
    /\ w_pc = "sleep"
    /\ w_pc' = "find"
    /\ w_port' = None
    /\ w_hit' = FALSE
    /\ UNCHANGED <<clientVars, discVars, main_pc, taskVars, histVars, normVars,
                   findVars, parseVars, msg_box>>

Watcher == WatchFind \/ WatchProbe \/ WatchSleep

(***************************************************************************)
(* The watcher next to the client of SilentNext.                           *)
(***************************************************************************)
WatchNext == SilentNext \/ Watcher

WatchSpec == Init /\ [][WatchNext]_vars

(***************************************************************************)
(* The discovery thread and the closing of the window, the thread being    *)
(* scheduled again and again.                                              *)
(***************************************************************************)
DiscNext == Discovery \/ OnClose \/ OnCloseBody \/ OnCloseDestroy

DiscFairSpec == Init /\ [][DiscNext]_vars /\ WF_vars(Discovery)

(***************************************************************************)
(* Properties.                                                             *)
(***************************************************************************)
\* the thread has written its command and its drain has not returned yet
InFlight(t) == pc[t] \in {"drain_start", "drain", "recv_blocked", "drain_fin"}

ErrorReports == {"<error: EBADF>", "<error: ECONNRESET>"}

\* C1: the socket operations of two send threads never interleave: no two
\* threads are at the same time between their write and the return of their
\* drain on the same socket.
C1_SendsNeverInterleave ==
    \A t1, t2 \in Tasks :
        t1 # t2 /\ InFlight(t1) /\ InFlight(t2) => s[t1] # s[t2]

\* C2: every socket the client ever opened is the one stored in self.sock or
\* is closed.
C2_AtMostOneOpenSocket ==
    \A id \in SockIds : sockets[id].open => sock = id

\* a second socket is open and stored after the first one was closed
C2_Witness ==
    /\ nsock >= 2
    /\ sock = nsock
    /\ sockets[nsock].open
    /\ ~sockets[1].open

\* C3: a thread whose sendall or recv raised is in the except clause: it has
\* reported the failure and is about to close and discard the connection.
C3_IOErrorDiscardsConnection ==
    \A t \in Tasks :
        ioErr[t] => pc[t] = "err_lock" /\ report[t] \in ErrorReports

\* C4 as stated: of two consecutive _ensure_connected calls with no close in
\* between, at most one makes a connect attempt, whatever the first returned.
C4_AtMostOneConnectAttempt ==
    [][\A t \in Tasks :
          pc[t] = "connecting" /\ pc'[t] # "connecting"
              => ecLast \notin {"connected", "failed"}]_vars

\* C4 amended: when a connection is stored, or the previous call returned True
\* and nothing was closed since, _ensure_connected returns True without a
\* connect attempt.
C4_NoConnectAfterSuccess ==
    [][\A t \in Tasks :
          /\ pc[t] = "ec_lock"
          /\ pc'[t] # "ec_lock"
          /\ sock # None \/ ecLast \in {"connected", "reused"}
          => /\ pc'[t] = "cap_lock"
             /\ ecLast' = "reused"
             /\ UNCHANGED <<sock, sockets, nsock, sock_lock>>]_vars

\* one connect was ever made and a later call returned True without connecting
C4_Witness ==
    /\ ecLast = "reused"
    /\ nsock = 1
    /\ sock = 1
    /\ sockets[1].open

\* C5: a send thread that finds no port known ends at once with the status
\* "Port unknown." and without any socket operation.
C5_NoPortNoSocketOps ==
    [][\A t \in Tasks :
          pc[t] = "ensure" /\ tcp_port = None /\ pc'[t] # "ensure"
              => /\ pc'[t] = "done"
                 /\ stat'[t] = "Port unknown."
                 /\ report'[t] = "none"
                 /\ UNCHANGED <<sockets, nsock>>]_vars

\* a send thread has ended with "Port unknown." and no socket was ever made
C5_Witness ==
    /\ tcp_port = None
    /\ nsock = 0
    /\ \E t \in Tasks : pc[t] = "done" /\ stat[t] = "Port unknown."

\* C6: _ensure_connected without a known port returns False and leaves the
\* connection handle, the port, the stop flag and the lock as they were.
C6_NoPortNoSideEffects ==
    [][\A t \in Tasks :
          pc[t] = "ensure" /\ tcp_port = None /\ pc'[t] # "ensure"
              => /\ ecLast' = "port_unknown"
                 /\ UNCHANGED <<sock, tcp_port, stop, sock_lock, nsock>>]_vars

\* the call has returned False on an untouched client
C6_Witness ==
    /\ ecLast = "port_unknown"
    /\ tcp_port = None
    /\ sock = None
    /\ sock_lock = None
    /\ nsock = 0

\* C7: a drain that ends without data and without error is reported as
\* "<no response>" and keeps the connection, and a thread whose read or write
\* raised never reports "<no response>".
C7_ErrorIsNeverNoResponse ==
    [][\A t \in Tasks :
          /\ pc[t] = "drain_fin" /\ pc'[t] = "done" /\ ~ioErr[t] /\ parts[t] = ""
                => report'[t] = "<no response>" /\ sock' = sock
          /\ ioErr[t] => report'[t] # "<no response>"]_vars

\* C8: facing a peer that never sends, every drain ends.
C8_DrainTerminates ==
    \A t \in Tasks : InDrain(t) ~> pc[t] = "done"

ExactlyOneTrailingNewline(txt) ==
    /\ txt # <<>>
    /\ txt[Len(txt)] = "\n"
    /\ Len(txt) > 1 => txt[Len(txt) - 1] # "\n"

\* C9: the text handed to sendall ends with exactly one newline.
C9_SingleTrailingNewline ==
    norm_out = <<>> \/ ExactlyOneTrailingNewline(norm_out)

\* a command with an inner newline and two trailing ones has been normalised
C9_Witness ==
    /\ norm_in = <<"a", "\n", "a", "\n", "\n">>
    /\ norm_out = <<"a", "\n", "a", "\n">>

\* C10: the locked block of on_close always completes, leaves self.sock None
\* with the stop flag set, whether or not a socket was stored and whether or
\* not its close raised; run on a client already closed it changes nothing.
C10_OnCloseIdempotent ==
    [][main_pc = "close_lock" /\ main_pc' # "close_lock"
          => /\ main_pc' = "close_destroy"
             /\ sock' = None
             /\ stop'
             /\ sock_lock' = None
             /\ sock = None => UNCHANGED <<sock, stop, sockets, tcp_port>>]_vars

\* a second on_close has closed a socket whose close raised
C10_Witness ==
    /\ main_pc = "close_destroy"
    /\ closeAgain
    /\ closeRaised
    /\ sock = None
    /\ stop

(***************************************************************************)
(* Cancellation of the discovery loop.                                     *)
(***************************************************************************)
\* C11: once on_close has set the stop flag, _background_find_port makes no
\* further call of find_port_from_temp and no further write of tcp_port
C11_NoDiscoveryAfterStop ==
    [][stop => /\ ~(disc_pc = "find" /\ disc_pc' # "find")
               /\ tcp_port' = tcp_port]_vars

(***************************************************************************)
(* Port discovery.                                                         *)
(***************************************************************************)
\* C12: find_port_from_temp never lets an exception out and returns None in
\* every failing situation: no directory, no regular file in it, the selected
\* file unreadable or removed between the listing and the lookup or read
C12_DiscoveryNeverRaises ==
    /\ fp_pc # "raised"
    /\ fp_pc = "returned" /\ fp_latest = None => fp_result = None
    /\ fp_pc = "returned" /\ fp_latest # None
          /\ (entries[fp_latest].kind = "absent" \/ ~entries[fp_latest].readable)
       => fp_result = None

\* C13: the parsing gives 12345 for "12345", "12345\nfoo", "port=12345" and
\* '{"port": 12345}', and None for "abc"
C13_ParsesNamedContents ==
    parse_out # <<>> =>
       /\ parse_in \in {Content_Plain, Content_TrailingText, Content_Embedded,
                        Content_Json} => parse_out = <<12345>>
       /\ parse_in = Content_Abc => parse_out = <<None>>

DistinctMtimes(files) ==
    \A i, j \in 1..Len(files) :
        entries[files[i]].mtime = entries[files[j]].mtime => i = j

\* C14: with pairwise distinct modification times the call reads the port
\* from the listed file with the greatest one, whatever the listing order
C14_SelectsNewestFile ==
    fp_pc = "returned" /\ fp_latest # None /\ DistinctMtimes(fp_files) =>
       /\ \E i \in 1..Len(fp_files) : fp_files[i] = fp_latest
       /\ \A i \in 1..Len(fp_files) :
             fp_files[i] # fp_latest =>
                entries[fp_files[i]].mtime < entries[fp_latest].mtime
       /\ entries[fp_latest].kind = "file" /\ entries[fp_latest].readable =>
             fp_result = ParsePort(entries[fp_latest].content)

\* three files were listed, the newest one last, and its port came back
C14_Witness ==
    /\ fp_pc = "returned"
    /\ Len(fp_files) = 3
    /\ DistinctMtimes(fp_files)
    /\ fp_latest = fp_files[3]
    /\ entries[fp_files[1]].mtime > entries[fp_files[2]].mtime
    /\ entries[fp_files[1]].content = <<"1">>
    /\ fp_result = 21

(***************************************************************************)
(* Timing of the drain and of the socket calls.                            *)
(***************************************************************************)
\* C15: the drain returns at the quiet period or at the overall deadline,
\* whichever comes first: when its loop ends without a read error, no more
\* than one idle timeout has passed since the last chunk arrived
C15_DrainStopsAtQuiet ==
    [][\A t \in Tasks :
          pc[t] = "drain" /\ pc'[t] = "drain_fin" /\ ~ioErr'[t] =>
             MaxTotal - remaining[t] <= IdleTimeout]_vars

\* C16: every blocking socket call is made with a finite timeout in effect:
\* no sendall is started on a socket that setblocking(True) has left without
\* a timeout
C16_EveryCallHasTimeout ==
    \A t \in Tasks : pc[t] = "send" => sockets[s[t]].mode # "blocking"

(***************************************************************************)
(* The background loops.                                                   *)
(***************************************************************************)
\* C17: no exception stops the discovery loop or the watcher loop: neither
\* thread is ended by an exception raised in one of its iterations
C17_LoopsSurviveExceptions ==
    /\ disc_pc # "crashed"
    /\ w_pc # "crashed"

DiscEnded == disc_pc \in {"done", "crashed"}

\* C18: the discovery thread terminates; it ends at once when an attempt
\* gives a port (which it stores), when 12 attempts are used up or when it
\* sees the stop flag; it makes at most 12 attempts and, once ended, does
\* nothing more
C18_DiscoveryTerminates ==
    /\ <>DiscEnded
    /\ [](disc_pc = "find" => disc_i < DiscoveryAttempts)
    /\ [][/\ tcp_port' # tcp_port => disc_pc' = "done"
          /\ disc_pc = "loop" /\ disc_pc' # "loop"
                /\ (stop \/ disc_i >= DiscoveryAttempts) => disc_pc' = "done"
          /\ DiscEnded => UNCHANGED <<disc_pc, disc_i, tcp_port>>]_vars

\* the thread has ended after its twelfth attempt without a port
C18_Witness ==
    /\ disc_pc = "done"
    /\ disc_i = DiscoveryAttempts
    /\ tcp_port = None
    /\ ~stop

\* C19: a watcher tick reads and writes nothing of the client and takes no
\* lock of it, so the watcher can always take its next step, also while a
\* send thread holds sock_lock or is blocked in recv
C19_WatcherIsolated ==
    /\ [][w_pc' # w_pc =>
            UNCHANGED <<clientVars, discVars, main_pc, taskVars, histVars>>]_vars
    /\ []((sock_lock # None \/ \E t \in Tasks : pc[t] = "recv_blocked")
             => ENABLED Watcher)

\* the watcher is in the middle of a tick while one send thread holds the
\* lock for its connect and the other is blocked in recv
C19_Witness ==
    /\ w_pc = "probe"
    /\ sock_lock # None
    /\ \E t \in Tasks : pc[t] = "recv_blocked"

\* C20: after every tick what the watcher has published is the result of
\* that tick alone
C20_PublishedIsTickResult ==
    w_pc = "sleep" => (msg_box = "port available" <=> w_hit)

(***************************************************************************)
(* The end of a send thread, and the client after on_close.                *)
(***************************************************************************)
\* C21: a send thread that ends has reported exactly one outcome: an entry
\* in the response log (response, <no response> or <error: ...>) or a
\* "Port unknown." / "Connect failed" status; none ends silently
C21_EverySendReports ==
    [][\A t \in Tasks :
          pc[t] # "done" /\ pc'[t] = "done" =>
             (report'[t] # "none")
                # (stat'[t] \in {"Port unknown.", "Connect failed"})]_vars

\* C22: once on_close has completed the client holds no socket and makes no
\* connect attempt, whatever send threads were started before the close
C22_NoSocketAfterClose ==
    main_pc = "destroyed" =>
       /\ sock = None
       /\ \A id \in SockIds : ~sockets[id].open
       /\ \A t \in Tasks : pc[t] # "connecting"

\* C23: the except clause of a send thread closes and discards the socket
\* this thread was using, never another one
C23_ClosesOwnSocket ==
    [][\A t \in Tasks :
          pc[t] = "err_lock" /\ pc'[t] = "done" =>
             /\ \A id \in SockIds :
                   sockets[id].open /\ ~sockets'[id].open => id = s[t]
             /\ sock' # sock => sock = s[t]]_vars

====
